---- MODULE Spec2Model ----
(***************************************************************************)
(* Model of the census query/aggregation engine of                         *)
(* src/job-satisfaction/data_model.py: Dataset, Query, InputRecord and     *)
(* WageTuple, and of the sketches that use it or stand beside it: the age  *)
(* chart of assign-10.py, the commit search of final-proj and the month    *)
(* buttons of bart-station/assign-15.py.  Numbers that the program holds   *)
(* as floats are whole numbers with a significand of MantissaBits bits; a  *)
(* quotient is kept as the pair num/den.                                   *)
(***************************************************************************)
EXTENDS Integers, Sequences, FiniteSets, TLC

VARIABLES
    csv_records,     \* load_from_file's local `records`: the rows csv.DictReader read
    input_records,   \* the list Dataset.__init__ was given (its local input_records)
    records_by_id,   \* Dataset._records_by_id : id -> InputRecord
    id_by,           \* Dataset._id_by_<d>, one index per dimension d
    query,           \* the Query object: 8 fields, each None or a value
    subpopulation,   \* what the last call of _get_subpopulation returned
    wages,           \* get_wageotc's local list `wages` after wages.sort
    result,          \* outcome of the last method call (value or raised error)
    age_distribution,\* assign-10: the AgeScale totals and the bars AgeDistribution drew
    data_model,      \* final-proj: the DataModel (the list `data` read from the files, and df)
    commit,          \* final-proj: the Commit graphic (input_text, commit_message, timeline_points)
    graphic          \* bart-station: the Graphic (month, month_buttons, buttons) and its mouse

vars == <<csv_records, input_records, records_by_id, id_by, query, subpopulation, wages, result, age_distribution, data_model, commit, graphic>>

-----------------------------------------------------------------------------
(* Bounds of the model *)

\* longest list of input records a Dataset is built from
MaxRecords == 2

\* most Query fields that are non-None at the same time
MaxSet == 3

\* rows of a file, and characters of a wageotc cell
MaxRows == 2
MaxCellLen == 7

\* The numbers of the program are floats. The model keeps the whole numbers
\* among them, with a significand of MantissaBits bits (binary64 has 53): a
\* sum or product that needs more bits is rounded to the nearest number that
\* fits, a tie going to the even significand.
MantissaBits == 10

\* the binary exponent at which x >= 0 fits the significand
RECURSIVE Exponent(_)
Exponent(x) == IF x < 2 ^ MantissaBits THEN 0 ELSE 1 + Exponent(x \div 2)

round(x) ==
    LET ulp  == 2 ^ Exponent(x)
        q    == x \div ulp
        r    == x % ulp
    IN IF 2 * r > ulp \/ (2 * r = ulp /\ q % 2 = 1) THEN (q + 1) * ulp ELSE q * ulp

\* a + b and a * b of two floats
fadd(a, b) == round(a + b)

fmul(a, b) == round(a * b)

-----------------------------------------------------------------------------
(* Values *)

\* Python's None for a Query field is <<>>, a value v is <<v>>
None == <<>>

Some(v) == <<v>>

\* the 8 dimensions in the order _get_subpopulation filters them
Dims == <<"educ", "docc03", "wbhaom", "female", "region", "age", "hoursuint", "citistat">>

DimSet == {Dims[i] : i \in 1..Len(Dims)}

WageTuple(wage, weight) == [wage |-> wage, weight |-> weight]

InputRecord(index, educ, docc03, wageotc, unemp, wage_count, unemp_count, wbhaom, female, region, age, hoursuint, citistat) ==
    [index |-> index, educ |-> educ, docc03 |-> docc03, wageotc |-> wageotc,
     unemp |-> unemp, wage_count |-> wage_count, unemp_count |-> unemp_count,
     wbhaom |-> wbhaom, female |-> female, region |-> region, age |-> age,
     hoursuint |-> hoursuint, citistat |-> citistat]

\* the input records a Dataset may be built from: two records share id 1, one
\* has no wage observation and a zero unemployment weight, one has only a
\* zero-weight wage observation, and wage_count differs from unemp_count
Rows ==
    { InputRecord(1, "college", "mgmt", <<WageTuple(10, 5), WageTuple(20, 5)>>,
                  5, 10, 10, "White", FALSE, "west", "<25 yr", "35+", "citizen"),
      InputRecord(2, "college", "service", <<WageTuple(22, 5), WageTuple(12, 5)>>,
                  8, 10, 10, "Black", TRUE, "west", "65+", "35+", "citizen"),
      InputRecord(1, "high school", "mgmt", <<>>,
                  10, 4, 0, "White", TRUE, "south", "<25 yr", "<35", "non-citizen"),
      InputRecord(3, "high school", "service", <<WageTuple(10, 0)>>,
                  4, 6, 3, "White", FALSE, "south", "65+", "35+", "citizen") }

\* the values callers pass to Query.set_<d>
QueryVals(d) ==
    CASE d = "educ"      -> {"college", "high school", "PhD"}
      [] d = "docc03"    -> {"mgmt", ""}
      [] d = "wbhaom"    -> {"White"}
      [] d = "female"    -> {TRUE, FALSE}
      [] d = "region"    -> {"south"}
      [] d = "age"       -> {"<25 yr"}
      [] d = "hoursuint" -> {"35+"}
      [] d = "citistat"  -> {"non-citizen"}

\* SeqsUpTo(S, n): the sequences over S of length at most n
SeqsUpTo(S, n) == UNION {[1..k -> S] : k \in 0..n}

\* str(value) of a Query value of dimension d
Str(d, v) == IF d = "female" THEN (IF v THEN "True" ELSE "False") ELSE v

-----------------------------------------------------------------------------
(* Dataset.__init__ *)

\* dict(map(lambda x: (x.get_index(), x), input_records)): a later record
\* with the same id replaces an earlier one
RECURSIVE MakeRecordsById(_)
MakeRecordsById(records) ==
    IF records = <<>> THEN <<>>
    ELSE LET n    == Len(records)
             rest == MakeRecordsById(SubSeq(records, 1, n - 1))
             last == records[n]
         IN [i \in (DOMAIN rest) \cup {last.index} |->
                IF i = last.index THEN last ELSE rest[i]]

\* Dataset._make_index(getter, records), the getter being the field d
RECURSIVE _make_index(_, _)
_make_index(d, records) ==
    IF records = <<>> THEN <<>>
    ELSE LET n         == Len(records)
             index     == _make_index(d, SubSeq(records, 1, n - 1))
             record    == records[n]
             value     == record[d]
             sub_index == IF value \in DOMAIN index THEN index[value] ELSE {}
         IN [v \in (DOMAIN index) \cup {value} |->
                IF v = value THEN sub_index \cup {record.index} ELSE index[v]]

NoResult ==
    [op |-> "none", kind |-> "none", num |-> 0, den |-> 1, vals |-> <<>>, err |-> "", msg |-> "",
     arg |-> ""]

NoSubpopulation == [returned |-> FALSE, ids |-> <<>>]

\* Query.__init__
NewQuery == [d \in DimSet |-> None]

\* a script that has not been started holds no object
NotStarted == <<>>

NoSketch ==
    /\ age_distribution = NotStarted
    /\ data_model = NotStarted
    /\ commit = NotStarted
    /\ graphic = NotStarted

Init ==
    /\ csv_records = <<>>
    /\ input_records \in SeqsUpTo(Rows, MaxRecords)
    /\ records_by_id = MakeRecordsById(input_records)
    /\ id_by = [d \in DimSet |-> _make_index(d, input_records)]
    /\ query = NewQuery
    /\ subpopulation = NoSubpopulation
    /\ wages = <<>>
    /\ result = NoResult
    /\ NoSketch

\* the three records of the worked example: two with educ "college", one with
\* "high school", every wage_count and unemp_count 10
ScenarioRecords ==
    << InputRecord(1, "college", "mgmt", <<WageTuple(10, 5), WageTuple(20, 5)>>,
                   5, 10, 10, "White", FALSE, "west", "<25 yr", "35+", "citizen"),
       InputRecord(2, "college", "service", <<WageTuple(12, 5), WageTuple(22, 5)>>,
                   8, 10, 10, "Black", TRUE, "west", "65+", "35+", "citizen"),
       InputRecord(3, "high school", "mgmt", <<WageTuple(8, 10)>>,
                   10, 10, 10, "White", FALSE, "south", "<25 yr", "<35", "non-citizen") >>

\* Dataset(ScenarioRecords) and a new Query
InitScenario ==
    /\ csv_records = <<>>
    /\ input_records = ScenarioRecords
    /\ records_by_id = MakeRecordsById(input_records)
    /\ id_by = [d \in DimSet |-> _make_index(d, input_records)]
    /\ query = NewQuery
    /\ subpopulation = NoSubpopulation
    /\ wages = <<>>
    /\ result = NoResult
    /\ NoSketch

\* three records of one wage observation each, with weights whose sum needs
\* one bit more than the significand holds
RoundingRecords ==
    << InputRecord(1, "college", "mgmt", <<WageTuple(1, 2 ^ (MantissaBits - 1))>>,
                   5, 10, 10, "White", FALSE, "west", "<25 yr", "35+", "citizen"),
       InputRecord(2, "college", "service", <<WageTuple(2, 2 ^ (MantissaBits - 1) + 1)>>,
                   8, 10, 10, "Black", TRUE, "west", "65+", "35+", "citizen"),
       InputRecord(3, "high school", "mgmt", <<WageTuple(3, 1)>>,
                   10, 10, 10, "White", FALSE, "south", "<25 yr", "<35", "non-citizen") >>

\* Dataset(RoundingRecords) and a new Query
InitRounding ==
    /\ csv_records = <<>>
    /\ input_records = RoundingRecords
    /\ records_by_id = MakeRecordsById(input_records)
    /\ id_by = [d \in DimSet |-> _make_index(d, input_records)]
    /\ query = NewQuery
    /\ subpopulation = NoSubpopulation
    /\ wages = <<>>
    /\ result = NoResult
    /\ NoSketch

DatasetUnchanged == UNCHANGED <<csv_records, input_records, records_by_id, id_by, age_distribution, data_model, commit, graphic>>

-----------------------------------------------------------------------------
(* Query *)

NumSet(q) == Cardinality({d \in DimSet : q[d] # None})

\* what a Query method leaves behind: it returns None, and no local of an
\* earlier Dataset call is alive
QueryCall ==
    /\ NumSet(query') <= MaxSet
    /\ subpopulation' = NoSubpopulation
    /\ wages' = <<>>
    /\ result' = NoResult
    /\ DatasetUnchanged

\* the arguments of Query.set_<d>(value): value may be None
SetValues(d) == {None} \cup {Some(v) : v \in QueryVals(d)}

set_educ == \E value \in SetValues("educ") :
    /\ query' = [query EXCEPT !.educ = value]
    /\ QueryCall

set_docc03 == \E value \in SetValues("docc03") :
    /\ query' = [query EXCEPT !.docc03 = value]
    /\ QueryCall

set_wbhaom == \E value \in SetValues("wbhaom") :
    /\ query' = [query EXCEPT !.wbhaom = value]
    /\ QueryCall

set_female == \E value \in SetValues("female") :
    /\ query' = [query EXCEPT !.female = value]
    /\ QueryCall

set_region == \E value \in SetValues("region") :
    /\ query' = [query EXCEPT !.region = value]
    /\ QueryCall

set_age == \E value \in SetValues("age") :
    /\ query' = [query EXCEPT !.age = value]
    /\ QueryCall

set_hoursuint == \E value \in SetValues("hoursuint") :
    /\ query' = [query EXCEPT !.hoursuint = value]
    /\ QueryCall

set_citistat == \E value \in SetValues("citistat") :
    /\ query' = [query EXCEPT !.citistat = value]
    /\ QueryCall

clear_educ ==
    /\ query' = [query EXCEPT !.educ = None]
    /\ QueryCall

clear_docc03 ==
    /\ query' = [query EXCEPT !.docc03 = None]
    /\ QueryCall

clear_wbhaom ==
    /\ query' = [query EXCEPT !.wbhaom = None]
    /\ QueryCall

clear_female ==
    /\ query' = [query EXCEPT !.female = None]
    /\ QueryCall

clear_region ==
    /\ query' = [query EXCEPT !.region = None]
    /\ QueryCall

clear_age ==
    /\ query' = [query EXCEPT !.age = None]
    /\ QueryCall

clear_hoursuint ==
    /\ query' = [query EXCEPT !.hoursuint = None]
    /\ QueryCall

clear_citistat ==
    /\ query' = [query EXCEPT !.citistat = None]
    /\ QueryCall

-----------------------------------------------------------------------------
(* Dataset._get_subpopulation *)

Returned(index) == [raised |-> FALSE, index |-> index, value |-> None]

Raised(value) == [raised |-> TRUE, index |-> {}, value |-> value]

\* filter_value with the index entry united with the accumulator
filter_value_union(accumulator_index, filter_index, value) ==
    IF value = None THEN Returned(accumulator_index)
    ELSE IF value[1] \notin DOMAIN filter_index THEN Raised(value)
    ELSE Returned(filter_index[value[1]] \cup accumulator_index)

\* filter_value returning the index entry without intersecting it
filter_value_allowed(accumulator_index, filter_index, value) ==
    IF value = None THEN Returned(accumulator_index)
    ELSE IF value[1] \notin DOMAIN filter_index THEN Raised(value)
    ELSE Returned(filter_index[value[1]])

\* filter_value giving the empty set for a value the index lacks
filter_value_silent(accumulator_index, filter_index, value) ==
    IF value = None THEN Returned(accumulator_index)
    ELSE IF value[1] \notin DOMAIN filter_index THEN Returned({})
    ELSE Returned(filter_index[value[1]] \cap accumulator_index)

\* the inner function filter_value(accumulator_index, filter_index, filter_value):
\* the narrowed index, or the RuntimeError raised for a value the index lacks
filter_value(accumulator_index, filter_index, value) ==
    IF value = None THEN Returned(accumulator_index)
    ELSE IF value[1] \notin DOMAIN filter_index THEN Raised(value)
    ELSE LET allowed == filter_index[value[1]]
         IN Returned(allowed \cap accumulator_index)

\* the 8 calls of filter_value, in the order of Dims, from the i-th on
RECURSIVE FilterFrom(_, _, _)
FilterFrom(i, ret_index, q) ==
    IF i > Len(Dims) THEN [raised |-> FALSE, index |-> ret_index, arg |-> ""]
    ELSE LET d == Dims[i]
             r == filter_value(ret_index, id_by[d], q[d])
         IN IF r.raised
            THEN [raised |-> TRUE, index |-> {}, arg |-> Str(d, r.value[1])]
            ELSE FilterFrom(i + 1, r.index, q)

\* field f of dimension d holds a value that is false in a condition: False or ""
Falsy(d, f) == f # None /\ (IF d = "female" THEN ~f[1] ELSE f[1] = "")

\* the filters run with every such value taken for "not set"
_get_subpopulation_falsy(q) ==
    FilterFrom(1, DOMAIN records_by_id, [d \in DimSet |-> IF Falsy(d, q[d]) THEN None ELSE q[d]])

\* ret_index after the 8 filters, or the error raised on the way
_get_subpopulation(q) == FilterFrom(1, DOMAIN records_by_id, q)

\* the orders in which the set ret_index may be iterated
Orders(S) == {o \in [1..Cardinality(S) -> S] : \A i, j \in DOMAIN o : i # j => o[i] # o[j]}

\* map(lambda x: self._records_by_id[x], ret_index), iterated in the order ids
Records(ids) == [i \in DOMAIN ids |-> records_by_id[ids[i]]]

CannotFind(op, arg) ==
    [op |-> op, kind |-> "error", num |-> 0, den |-> 1, vals |-> <<>>, err |-> "RuntimeError",
     msg |-> "Cannot find the provided value: %s", arg |-> arg]

Error(op, err, msg) ==
    [op |-> op, kind |-> "error", num |-> 0, den |-> 1, vals |-> <<>>, err |-> err, msg |-> msg,
     arg |-> ""]

\* a returned float, num / den
Value(op, num, den) ==
    [op |-> op, kind |-> "value", num |-> num, den |-> den, vals |-> <<>>, err |-> "", msg |-> "",
     arg |-> ""]

\* sum(iterable) of Python: the additions from left to right
RECURSIVE sum(_)
sum(s) == IF s = <<>> THEN 0 ELSE fadd(sum(SubSeq(s, 1, Len(s) - 1)), s[Len(s)])

-----------------------------------------------------------------------------
(* Dataset.get_size *)

\* the sizes taken from the unemployment weight
wage_counts_unemp(sub) == [i \in DOMAIN sub |-> sub[i].unemp_count]

\* map(lambda x: x.get_wage_count(), subpopulation)
wage_counts(sub) == [i \in DOMAIN sub |-> sub[i].wage_count]

\* the size computed with reduce, as get_unemp computes its sums
size_of_reduce(sub) ==
    IF sub = <<>>
    THEN Error("get_size", "TypeError", "reduce() of empty iterable with no initial value")
    ELSE Value("get_size", sum(wage_counts(sub)), 1)

\* sum(wage_counts): 0 for an empty subpopulation
size_of(sub) == Value("get_size", sum(wage_counts(sub)), 1)

get_size ==
    LET s == _get_subpopulation(query)
    IN /\ IF s.raised
          THEN /\ subpopulation' = NoSubpopulation
               /\ result' = CannotFind("get_size", s.arg)
          ELSE \E ids \in Orders(s.index) :
                  /\ subpopulation' = [returned |-> TRUE, ids |-> ids]
                  /\ result' = size_of(Records(ids))
       /\ wages' = <<>>
       /\ UNCHANGED query
       /\ DatasetUnchanged

-----------------------------------------------------------------------------
(* Dataset.get_unemp *)

\* the rates weighted by the wage weight
unemp_tuples_wage(sub) == [i \in DOMAIN sub |-> <<sub[i].wage_count, sub[i].unemp>>]

\* map(lambda x: (x.get_unemp_count(), x.get_unemp()), subpopulation)
unemp_tuples(sub) == [i \in DOMAIN sub |-> <<sub[i].unemp_count, sub[i].unemp>>]

\* map(lambda x: (x[0], x[0] * x[1]), unemp_tuples)
weighted_tuples(tuples) ==
    [i \in DOMAIN tuples |-> <<tuples[i][1], fmul(tuples[i][1], tuples[i][2])>>]

\* functools.reduce(lambda a, b: (a[0] + b[0], a[1] + b[1]), s) of a non-empty s
RECURSIVE reduce(_)
reduce(s) ==
    IF Len(s) = 1 THEN s[1]
    ELSE LET a == reduce(SubSeq(s, 1, Len(s) - 1))
             b == s[Len(s)]
         IN <<fadd(a[1], b[1]), fadd(a[2], b[2])>>

\* get_unemp with reduce given the initial value (0, 0)
unemp_of_initial(sub) ==
    LET reduced == IF sub = <<>> THEN <<0, 0>>
                   ELSE reduce(weighted_tuples(unemp_tuples(sub)))
    IN IF reduced[1] = 0
       THEN Error("get_unemp", "ZeroDivisionError", "float division by zero")
       ELSE Value("get_unemp", reduced[2], reduced[1])

\* the statements of get_unemp after _get_subpopulation returned sub: reduce
\* without an initial value raises TypeError on an empty iterable, and the
\* float division raises ZeroDivisionError on a zero divisor
unemp_of(sub) ==
    IF sub = <<>>
    THEN Error("get_unemp", "TypeError", "reduce() of empty iterable with no initial value")
    ELSE LET reduced == reduce(weighted_tuples(unemp_tuples(sub)))
         IN IF reduced[1] = 0
            THEN Error("get_unemp", "ZeroDivisionError", "float division by zero")
            ELSE Value("get_unemp", reduced[2], reduced[1])

get_unemp ==
    LET s == _get_subpopulation(query)
    IN /\ IF s.raised
          THEN /\ subpopulation' = NoSubpopulation
               /\ result' = CannotFind("get_unemp", s.arg)
          ELSE \E ids \in Orders(s.index) :
                  /\ subpopulation' = [returned |-> TRUE, ids |-> ids]
                  /\ result' = unemp_of(Records(ids))
       /\ wages' = <<>>
       /\ UNCHANGED query
       /\ DatasetUnchanged

-----------------------------------------------------------------------------
(* Dataset.get_wageotc *)

\* list(itertools.chain(*map(lambda x: x.get_wageotc(), subpopulation)))
RECURSIVE chain(_)
chain(sub) ==
    IF sub = <<>> THEN <<>>
    ELSE chain(SubSeq(sub, 1, Len(sub) - 1)) \o sub[Len(sub)].wageotc

\* x put into the sorted list s behind every element whose wage is <= x's
RECURSIVE InsertByWage(_, _)
InsertByWage(s, x) ==
    IF s = <<>> THEN <<x>>
    ELSE IF s[Len(s)].wage <= x.wage THEN Append(s, x)
    ELSE Append(InsertByWage(SubSeq(s, 1, Len(s) - 1), x), s[Len(s)])

\* the pool left as chain gave it
sort_not(s) == s

\* wages.sort(key=lambda x: x.get_wage()): ascending by wage, stable
RECURSIVE sort(_)
sort(s) ==
    IF s = <<>> THEN <<>>
    ELSE InsertByWage(sort(SubSeq(s, 1, Len(s) - 1)), s[Len(s)])

\* the comparison with > in place of >=
ReachesMid_strict(weight_acc, weight, total_count) == 2 * fadd(weight_acc, weight) > total_count

\* weight_acc + weight >= mid_count, mid_count being total_count / 2
ReachesMid(weight_acc, weight, total_count) == 2 * fadd(weight_acc, weight) >= total_count

\* the for loop of get_wageotc from the i-th element of the sorted list on
RECURSIVE MedianFrom(_, _, _, _)
MedianFrom(ws, i, weight_acc, total_count) ==
    IF i > Len(ws)
    THEN Error("get_wageotc", "RuntimeError", "Unable to get median wage.")
    ELSE LET weight == ws[i].weight
         IN IF ReachesMid(weight_acc, weight, total_count)
            THEN Value("get_wageotc", ws[i].wage, 1)
            ELSE MedianFrom(ws, i + 1, fadd(weight_acc, ws[i].weight), total_count)

\* sum(map(lambda x: x.get_weight(), wages))
total_count_of(ws) == sum([i \in DOMAIN ws |-> ws[i].weight])

\* get_wageotc answering 0 for an empty list instead of raising
median_of_default(ws, total_count) ==
    IF ws = <<>> THEN Value("get_wageotc", 0, 1) ELSE MedianFrom(ws, 1, 0, total_count)

\* the loop over the sorted list and the raise behind it
median_of(ws, total_count) == MedianFrom(ws, 1, 0, total_count)

\* a sort run on the wage list of each record itself
after_sort_in_place(records) ==
    [i \in DOMAIN records |-> [records[i] EXCEPT !.wageotc = sort(@)]]

\* the stored records after wages.sort(...): wages is the list made by
\* list(wages_iter), not the list of any record, so no record's list is reordered
after_sort(records) == records

get_wageotc ==
    LET s == _get_subpopulation(query)
    IN /\ IF s.raised
          THEN /\ subpopulation' = NoSubpopulation
               /\ wages' = <<>>
               /\ result' = CannotFind("get_wageotc", s.arg)
          ELSE \E ids \in Orders(s.index) :
                  LET pool        == chain(Records(ids))
                      total_count == total_count_of(pool)
                  IN /\ subpopulation' = [returned |-> TRUE, ids |-> ids]
                     /\ wages' = sort(pool)
                     /\ result' = median_of(wages', total_count)
       /\ records_by_id' = IF s.raised THEN records_by_id ELSE after_sort(records_by_id)
       /\ UNCHANGED <<csv_records, input_records, id_by, query, age_distribution, data_model, commit, graphic>>

-----------------------------------------------------------------------------
(* Dataset.get_max_wage, get_max_unemployment *)

\* max(iterable) of Python over a non-empty sequence of numbers
RECURSIVE max(_)
max(s) ==
    IF Len(s) = 1 THEN s[1]
    ELSE LET m == max(SubSeq(s, 1, Len(s) - 1))
         IN IF s[Len(s)] > m THEN s[Len(s)] ELSE m

\* a maximum that answers 0 for an empty iterable
max_of_default(op, s) == Value(op, IF s = <<>> THEN 0 ELSE max(s), 1)

\* max(iterable), or the ValueError it raises when the iterable is empty
max_of(op, s) ==
    IF s = <<>> THEN Error(op, "ValueError", "max() arg is an empty sequence")
    ELSE Value(op, max(s), 1)

\* self._records_by_id.values(), in an order of the dict
values == Records(CHOOSE o \in Orders(DOMAIN records_by_id) : TRUE)

\* the accessors take no Query and keep no local of an earlier call
AccessorCall ==
    /\ subpopulation' = NoSubpopulation
    /\ wages' = <<>>
    /\ UNCHANGED query
    /\ DatasetUnchanged

\* map(lambda x: x.get_wage(), itertools.chain(*wages_nest))
wages_raw(ws) == [i \in DOMAIN ws |-> ws[i].wage]

get_max_wage ==
    /\ result' = max_of("get_max_wage", wages_raw(chain(values)))
    /\ AccessorCall

\* map(lambda x: x.get_unemp(), records)
unemployments(records) == [i \in DOMAIN records |-> records[i].unemp]

get_max_unemployment ==
    /\ result' = max_of("get_max_unemployment", unemployments(values))
    /\ AccessorCall

-----------------------------------------------------------------------------
(* Dataset.get_<d>_vals *)

\* the strings of the model in the order in which Python compares str values
\* (by code point: digits, then "<", then upper case, then lower case)
StrOrder ==
    <<"35+", "65+", "<25 yr", "<35", "Black", "PhD", "White", "citizen", "college",
      "high school", "mgmt", "non-citizen", "service", "south", "west">>

StrRank(v) == CHOOSE i \in DOMAIN StrOrder : StrOrder[i] = v

\* a < b for two values of dimension d: str by code point, False before True
Less(d, a, b) == IF d = "female" THEN (~a /\ b) ELSE StrRank(a) < StrRank(b)

\* self._id_by_<d>.keys(): the values in the order _make_index met them first
RECURSIVE keys(_, _)
keys(d, records) ==
    IF records = <<>> THEN <<>>
    ELSE LET n     == Len(records)
             seen  == keys(d, SubSeq(records, 1, n - 1))
             value == records[n][d]
         IN IF \E i \in DOMAIN seen : seen[i] = value THEN seen ELSE Append(seen, value)

\* x put into the sorted list s before the first element greater than x
RECURSIVE InsertSorted(_, _, _)
InsertSorted(d, s, x) ==
    IF s = <<>> THEN <<x>>
    ELSE IF Less(d, x, s[Len(s)])
         THEN Append(InsertSorted(d, SubSeq(s, 1, Len(s) - 1), x), s[Len(s)])
         ELSE Append(s, x)

\* the keys left in the order of the dict
sorted_not(d, s) == s

\* sorted(iterable) over values of dimension d
RECURSIVE sorted(_, _)
sorted(d, s) ==
    IF s = <<>> THEN <<>>
    ELSE InsertSorted(d, sorted(d, SubSeq(s, 1, Len(s) - 1)), s[Len(s)])

\* a returned list
ListValue(op, vals) ==
    [op |-> op, kind |-> "list", num |-> 0, den |-> 1, vals |-> vals, err |-> "", msg |-> "",
     arg |-> ""]

ValsOp(d) ==
    CASE d = "educ"      -> "get_educ_vals"
      [] d = "docc03"    -> "get_docc03_vals"
      [] d = "wbhaom"    -> "get_wbhaom_vals"
      [] d = "female"    -> "get_female_vals"
      [] d = "region"    -> "get_region_vals"
      [] d = "age"       -> "get_age_vals"
      [] d = "hoursuint" -> "get_hoursuint_vals"
      [] d = "citistat"  -> "get_citistat_vals"

\* sorted(self._id_by_<d>.keys())
get_vals(d) == ListValue(ValsOp(d), sorted(d, keys(d, input_records)))

get_educ_vals ==
    /\ result' = get_vals("educ")
    /\ AccessorCall

get_docc03_vals ==
    /\ result' = get_vals("docc03")
    /\ AccessorCall

get_wbhaom_vals ==
    /\ result' = get_vals("wbhaom")
    /\ AccessorCall

get_female_vals ==
    /\ result' = get_vals("female")
    /\ AccessorCall

get_region_vals ==
    /\ result' = get_vals("region")
    /\ AccessorCall

get_age_vals ==
    /\ result' = get_vals("age")
    /\ AccessorCall

get_hoursuint_vals ==
    /\ result' = get_vals("hoursuint")
    /\ AccessorCall

get_citistat_vals ==
    /\ result' = get_vals("citistat")
    /\ AccessorCall

-----------------------------------------------------------------------------
(* parse_wage_otc, parse_record, load_from_file *)

\* A numeric or wageotc cell is the sequence of its characters.
Digits == <<"0", "1", "2", "3", "4", "5", "6", "7", "8", "9">>

IsDigit(c) == \E i \in DOMAIN Digits : Digits[i] = c

DigitVal(c) == (CHOOSE i \in DOMAIN Digits : Digits[i] = c) - 1

\* the number a string of decimal digits denotes
RECURSIVE decimal(_)
decimal(t) ==
    IF t = <<>> THEN 0
    ELSE 10 * decimal(SubSeq(t, 1, Len(t) - 1)) + DigitVal(t[Len(t)])

\* s.strip(): float() and int() skip blanks at both ends
strip(s) ==
    LET keep == {i \in DOMAIN s : s[i] # " "}
    IN IF keep = {} THEN <<>>
       ELSE SubSeq(s, CHOOSE i \in keep : \A j \in keep : i <= j,
                      CHOOSE i \in keep : \A j \in keep : j <= i)

\* float(s) for cells made of digits, blanks, ";" and letters: Some(number),
\* or None for the ValueError
float(s) ==
    LET t == strip(s)
    IN IF t # <<>> /\ \A i \in DOMAIN t : IsDigit(t[i]) THEN Some(decimal(t)) ELSE None

\* int(s) over the same cells
int(s) ==
    LET t == strip(s)
    IN IF t # <<>> /\ \A i \in DOMAIN t : IsDigit(t[i]) THEN Some(decimal(t)) ELSE None

\* s.split(sep): the pieces between separators, empty pieces kept
RECURSIVE split(_, _)
split(s, sep) ==
    LET at == {i \in DOMAIN s : s[i] = sep}
    IN IF at = {} THEN <<s>>
       ELSE LET i == CHOOSE k \in at : \A j \in at : k <= j
            IN <<SubSeq(s, 1, i - 1)>> \o split(SubSeq(s, i + 1, Len(s)), sep)

Parsed(v) == [err |-> "", value |-> v]

Failed(err) == [err |-> err, value |-> <<>>]

\* a pair read as "<weight> <wage>"
parse_pair_swapped(pair) ==
    LET x == split(pair, " ")
    IN IF float(x[1]) = None THEN Failed("ValueError")
       ELSE IF Len(x) < 2 THEN Failed("IndexError")
       ELSE IF float(x[2]) = None THEN Failed("ValueError")
       ELSE Parsed(WageTuple(float(x[2])[1], float(x[1])[1]))

\* (float(x[0]), float(x[1])) for x = pair.split(' '), made a WageTuple
parse_pair(pair) ==
    LET x == split(pair, " ")
    IN IF float(x[1]) = None THEN Failed("ValueError")
       ELSE IF Len(x) < 2 THEN Failed("IndexError")
       ELSE IF float(x[2]) = None THEN Failed("ValueError")
       ELSE Parsed(WageTuple(float(x[1])[1], float(x[2])[1]))

\* the lazy maps of parse_wage_otc run over the pairs, from the first on
RECURSIVE ParsePairs(_)
ParsePairs(tuple_unparsed) ==
    IF tuple_unparsed = <<>> THEN Parsed(<<>>)
    ELSE LET first == parse_pair(Head(tuple_unparsed))
             rest  == ParsePairs(Tail(tuple_unparsed))
         IN IF first.err # "" THEN first
            ELSE IF rest.err # "" THEN rest
            ELSE Parsed(<<first.value>> \o rest.value)

\* list(parse_wage_otc(wage_otc_string)), as InputRecord.__init__ runs it
parse_wage_otc(wage_otc_string) == ParsePairs(split(wage_otc_string, ";"))

\* parse_record followed by InputRecord.__init__: the conversions in the order
\* of the code, the wage pairs last because the maps are lazy
parse_record(record_raw) ==
    IF "index" \notin DOMAIN record_raw THEN Failed("KeyError")
    ELSE IF int(record_raw.index) = None THEN Failed("ValueError")
    ELSE IF float(record_raw.unemp) = None THEN Failed("ValueError")
    ELSE IF float(record_raw.wageCount) = None THEN Failed("ValueError")
    ELSE IF float(record_raw.unempCount) = None THEN Failed("ValueError")
    ELSE LET wageotc == parse_wage_otc(record_raw.wageotc)
         IN IF wageotc.err # "" THEN wageotc
            ELSE Parsed(InputRecord(int(record_raw.index)[1], record_raw.educ,
                                    record_raw.docc03, wageotc.value,
                                    float(record_raw.unemp)[1],
                                    float(record_raw.wageCount)[1],
                                    float(record_raw.unempCount)[1],
                                    record_raw.wbhaom, record_raw.female = "Female",
                                    record_raw.region, record_raw.age,
                                    record_raw.hoursuint, record_raw.citistat))

\* a load that leaves out the rows that do not parse
RECURSIVE ParseAll_skip(_)
ParseAll_skip(records) ==
    IF records = <<>> THEN Parsed(<<>>)
    ELSE LET first == parse_record(Head(records))
             rest  == ParseAll_skip(Tail(records))
         IN IF first.err # "" THEN rest ELSE Parsed(<<first.value>> \o rest.value)

\* list(map(parse_record, records)) in Dataset.__init__: the first row that
\* fails raises
RECURSIVE ParseAll(_)
ParseAll(records) ==
    IF records = <<>> THEN Parsed(<<>>)
    ELSE LET first == parse_record(Head(records))
             rest  == ParseAll(Tail(records))
         IN IF first.err # "" THEN first
            ELSE IF rest.err # "" THEN rest
            ELSE Parsed(<<first.value>> \o rest.value)

\* load_from_file returned a Dataset
Loaded ==
    [op |-> "load_from_file", kind |-> "dataset", num |-> 0, den |-> 1, vals |-> <<>>,
     err |-> "", msg |-> "", arg |-> ""]

load_from_file ==
    LET records_parsed == ParseAll(csv_records)
    IN /\ IF records_parsed.err # ""
          THEN /\ result' = Error("load_from_file", records_parsed.err, "")
               /\ UNCHANGED <<input_records, records_by_id, id_by>>
          ELSE /\ input_records' = records_parsed.value
               /\ records_by_id' = MakeRecordsById(input_records')
               /\ id_by' = [d \in DimSet |-> _make_index(d, input_records')]
               /\ result' = Loaded
       /\ UNCHANGED <<csv_records, query, subpopulation, wages, age_distribution, data_model, commit, graphic>>

\* a row of the file as csv.DictReader gives it
RawRow(index, educ, wageotc, unemp, wageCount, unempCount, female) ==
    [index |-> index, educ |-> educ, docc03 |-> "mgmt", wageotc |-> wageotc, unemp |-> unemp,
     wageCount |-> wageCount, unempCount |-> unempCount, wbhaom |-> "White",
     female |-> female, region |-> "west", age |-> "<25 yr", hoursuint |-> "35+",
     citistat |-> "citizen"]

GoodRow == RawRow(<<"1">>, "college", <<"1", "0", " ", "5">>, <<"5">>, <<"7">>, <<"7">>, "Male")

\* a row of a file whose header has no index column
Without(record_raw, column) == [c \in DOMAIN record_raw \ {column} |-> record_raw[c]]

\* rows that parse (two of them with the same index) and rows with one cell
\* that does not convert
RawRows ==
    { GoodRow,
      RawRow(<<"2">>, "high school", <<"1", "2", " ", "5", ";", "8", " ", "5">>, <<"8">>,
             <<"7">>, <<"7">>, "Female"),
      RawRow(<<"1">>, "college", <<"2", "0", " ", "5">>, <<"4">>, <<"7">>, <<"7">>, "female"),
      [GoodRow EXCEPT !.index = <<"x">>],
      [GoodRow EXCEPT !.unemp = <<"x">>],
      [GoodRow EXCEPT !.wageCount = <<>>],
      [GoodRow EXCEPT !.unempCount = <<"7", "x">>],
      [GoodRow EXCEPT !.wageotc = <<"1", "0">>],
      Without(GoodRow, "index") }

\* before the load there is no Dataset
NoDataset ==
    /\ input_records = <<>>
    /\ records_by_id = MakeRecordsById(<<>>)
    /\ id_by = [d \in DimSet |-> _make_index(d, <<>>)]
    /\ query = NewQuery
    /\ subpopulation = NoSubpopulation
    /\ wages = <<>>
    /\ result = NoResult
    /\ NoSketch

InitLoad ==
    /\ csv_records \in SeqsUpTo(RawRows, MaxRows)
    /\ NoDataset

\* the characters a wageotc cell is made of
CellChars == {"1", " ", ";", "x"}

\* the texts of a female cell: the one that means True, and two others
FemaleTexts == {"Female", "female", "Male"}

\* a file of one row whose wageotc cell is any text of at most MaxCellLen
\* characters and whose female cell is one of FemaleTexts
InitParse ==
    /\ \E cell \in SeqsUpTo(CellChars, MaxCellLen), female \in FemaleTexts :
          csv_records = <<[GoodRow EXCEPT !.wageotc = cell, !.female = female]>>
    /\ NoDataset

-----------------------------------------------------------------------------
(* Notions the properties are stated with *)

Range(s) == {s[i] : i \in DOMAIN s}

\* a call of get_size, get_unemp or get_wageotc has just ended
Called == result.op \in {"get_size", "get_unemp", "get_wageotc"}

UniqueIds(records) ==
    \A i, j \in DOMAIN records : i # j => records[i].index # records[j].index

\* record r has the value the query asks for in every dimension the query sets
Matches(r, q) == \A d \in DimSet : q[d] = None \/ q[d][1] = r[d]

\* dimension d of q holds a value that is no key of the index of d
Unknown(q, d) == q[d] # None /\ q[d][1] \notin DOMAIN id_by[d]

KnownValues(q) == \A d \in DimSet : ~Unknown(q, d)

\* the sum of f[x] over the set S
RECURSIVE SetSum(_, _)
SetSum(S, f) ==
    IF S = {} THEN 0
    ELSE LET x == CHOOSE y \in S : TRUE IN f[x] + SetSum(S \ {x}, f)

\* the weight accumulated over the first k elements of ws
CumWeight(ws, k) == SetSum(1..k, [i \in DOMAIN ws |-> ws[i].weight])

\* s and t hold the same elements the same number of times
SameBag(s, t) ==
    /\ Len(s) = Len(t)
    /\ \A x \in Range(s) \cup Range(t) :
          Cardinality({i \in DOMAIN s : s[i] = x}) = Cardinality({i \in DOMAIN t : t[i] = x})

\* the records the last _get_subpopulation call returned
Subpop == Records(subpopulation.ids)

-----------------------------------------------------------------------------
(* Properties *)

\* C1: on a Dataset with unique record ids and a query whose values are all
\* keys of their index, _get_subpopulation returns exactly the input records
\* that match the query in every dimension it sets, each once.
C1_SubpopulationExact ==
    (Called /\ UniqueIds(input_records) /\ KnownValues(query)) =>
        /\ subpopulation.returned
        /\ Range(Subpop) = {r \in Range(input_records) : Matches(r, query)}
        /\ Len(Subpop) = Cardinality(Range(Subpop))

\* a two-dimension query that keeps one of two records and leaves one out
C1_Witness ==
    /\ Called /\ UniqueIds(input_records) /\ KnownValues(query)
    /\ Len(input_records) = 2
    /\ NumSet(query) >= 2
    /\ Len(subpopulation.ids) = 1

\* C2: when some set field of the query holds a value that is no key of its
\* index, get_size, get_unemp and get_wageotc raise the RuntimeError naming such
\* a value, whatever the other fields are; none returns a value.
C2_UnknownValueRaises ==
    (Called /\ ~KnownValues(query)) =>
        /\ result.kind = "error"
        /\ result.err = "RuntimeError"
        /\ result.msg = "Cannot find the provided value: %s"
        /\ \E d \in DimSet : Unknown(query, d) /\ result.arg = Str(d, query[d][1])

\* the unknown value comes after known values that already match no record
C2_Witness ==
    /\ Called /\ result.kind = "error"
    /\ \E i \in 1..Len(Dims) :
          /\ Unknown(query, Dims[i])
          /\ \A j \in 1..Len(Dims) : Unknown(query, Dims[j]) => j >= i
          /\ \E j \in 1..(i - 1) : query[Dims[j]] # None
          /\ input_records # <<>>
          /\ ~\E r \in Range(input_records) :
                \A j \in 1..(i - 1) : query[Dims[j]] = None \/ query[Dims[j]][1] = r[Dims[j]]

SubpopIds == Range(subpopulation.ids)

\* the ids of the records that match the query, when ids are unique
MatchingIds == {r.index : r \in {x \in Range(input_records) : Matches(x, query)}}

UnempCount == [i \in DOMAIN records_by_id |-> records_by_id[i].unemp_count]

UnempTimesCount ==
    [i \in DOMAIN records_by_id |-> records_by_id[i].unemp_count * records_by_id[i].unemp]

WageCount == [i \in DOMAIN records_by_id |-> records_by_id[i].wage_count]

\* C4: for a query whose values are all known, get_unemp returns
\* sum(unemp_count_i * unemp_i) / sum(unemp_count_i) over exactly the records
\* of the subpopulation (the matching records when ids are unique), weighted
\* by unemp_count; it returns it whenever that sum of weights is not zero.
C4_WeightedMeanUnemp ==
    (result.op = "get_unemp" /\ KnownValues(query)) =>
        /\ subpopulation.returned
        /\ SetSum(SubpopIds, UnempCount) # 0 => result.kind = "value"
        /\ result.kind = "value" =>
              /\ result.num * SetSum(SubpopIds, UnempCount)
                    = SetSum(SubpopIds, UnempTimesCount) * result.den
              /\ result.den # 0
              /\ UniqueIds(input_records) =>
                    result.num * SetSum(MatchingIds, UnempCount)
                       = SetSum(MatchingIds, UnempTimesCount) * result.den

\* a mean over two records whose unemployment weights and rates differ and
\* whose wage weights are not their unemployment weights
C4_Witness ==
    /\ result.op = "get_unemp" /\ result.kind = "value"
    /\ Len(subpopulation.ids) = 2
    /\ NumSet(query) >= 1
    /\ \E i, j \in SubpopIds :
          /\ UnempCount[i] # UnempCount[j]
          /\ records_by_id[i].unemp # records_by_id[j].unemp
          /\ WageCount[j] # UnempCount[j]

\* C5: get_size returns the sum of wage_count over exactly the records of the
\* subpopulation (the matching records when ids are unique), also when
\* wage_count and unemp_count differ.
C5_SizeIsWageCount ==
    (result.op = "get_size" /\ subpopulation.returned) =>
        /\ result.kind = "value"
        /\ result.den = 1
        /\ result.num = SetSum(SubpopIds, WageCount)
        /\ UniqueIds(input_records) => result.num = SetSum(MatchingIds, WageCount)

\* a size over two records of which one has wage_count # unemp_count
C5_Witness ==
    /\ result.op = "get_size" /\ result.kind = "value"
    /\ Len(subpopulation.ids) = 2
    /\ NumSet(query) >= 1
    /\ SetSum(SubpopIds, WageCount) # SetSum(SubpopIds, UnempCount)

\* C6: get_wageotc raises RuntimeError, and returns no value, whenever the
\* flattened wage pool of the subpopulation is empty: no record matches, or
\* every matching record has an empty wage list.
C6_EmptyPoolRaises ==
    (result.op = "get_wageotc" /\ subpopulation.returned /\ chain(Subpop) = <<>>) =>
        /\ result.kind = "error"
        /\ result.err = "RuntimeError"
        /\ result.msg = "Unable to get median wage."

\* a record matches and its wage list is empty
C6_Witness ==
    /\ result.op = "get_wageotc" /\ result.kind = "error"
    /\ subpopulation.returned
    /\ subpopulation.ids # <<>>
    /\ chain(Subpop) = <<>>

\* the subpopulation is empty although every queried value is known
EmptySubpopulation == subpopulation.returned /\ subpopulation.ids = <<>>

\* records match and each has unemp_count = 0
ZeroUnempWeights ==
    /\ subpopulation.returned
    /\ subpopulation.ids # <<>>
    /\ \A i \in SubpopIds : UnempCount[i] = 0

\* C7 as stated: get_unemp fails with a division-by-zero error both when the
\* subpopulation is empty and when every matching record has unemp_count = 0.
C7_DivisionByZeroBoth ==
    (result.op = "get_unemp" /\ (EmptySubpopulation \/ ZeroUnempWeights)) =>
        (result.kind = "error" /\ result.err = "ZeroDivisionError")

\* C7 as amended: get_unemp fails in both cases, with the TypeError of
\* reduce() on an empty iterable when the subpopulation is empty, and with a
\* division-by-zero error when every matching record has unemp_count = 0.
C7_FailsTypeErrorOrDivision ==
    /\ (result.op = "get_unemp" /\ EmptySubpopulation) =>
          (result.kind = "error" /\ result.err = "TypeError")
    /\ (result.op = "get_unemp" /\ ZeroUnempWeights) =>
          (result.kind = "error" /\ result.err = "ZeroDivisionError")

\* known values that no record has together: an empty subpopulation
C7_Witness ==
    /\ result.op = "get_unemp" /\ result.kind = "error"
    /\ EmptySubpopulation
    /\ input_records # <<>>
    /\ NumSet(query) >= 2

\* C8: an aggregate (get_wageotc, get_unemp) over a subpopulation whose
\* relevant weights sum to zero raises an error and never returns a number,
\* also for a non-empty wage pool whose weights are all 0.
C8_NoWeightRaises ==
    /\ (result.op = "get_wageotc" /\ subpopulation.returned
          /\ SetSum(DOMAIN wages, [i \in DOMAIN wages |-> wages[i].weight]) = 0) =>
          result.kind = "error"
    /\ (result.op = "get_unemp" /\ subpopulation.returned
          /\ SetSum(SubpopIds, UnempCount) = 0) =>
          result.kind = "error"

\* what get_size(q) returns for a query q of known values (the order in which
\* the ids are iterated does not change an integer sum)
SizeOf(q) ==
    LET ids == CHOOSE o \in Orders(_get_subpopulation(q).index) : TRUE
    IN sum(wage_counts(Records(ids)))

\* the values get_<d>_vals() lists: the keys of the index of d
ValsOf(d) == DOMAIN id_by[d]

\* C9: for each dimension d, the sizes of the queries that fix d to each
\* value of get_<d>_vals() in turn add up to the size of the all-None query.
C9_SizeAdditive ==
    \A d \in DimSet :
        SetSum(ValsOf(d), [v \in ValsOf(d) |-> SizeOf([NewQuery EXCEPT ![d] = Some(v)])])
            = SizeOf(NewQuery)

\* the queries that set a part of the fields q sets, to the same values
Weakenings(q) ==
    {[d \in DimSet |-> IF d \in D THEN q[d] ELSE None] : D \in SUBSET DimSet}

\* C10: when q2 sets every field q1 sets to the same value, and possibly
\* more, and all values are known, the records returned for q2 are among the
\* records returned for q1.
C10_SubsetMonotone ==
    (Called /\ subpopulation.returned) =>
        \A q1 \in Weakenings(query) :
            LET s1 == _get_subpopulation(q1)
            IN /\ ~s1.raised
               /\ SubpopIds \subseteq s1.index
               /\ Range(Subpop) \subseteq {records_by_id[i] : i \in s1.index}

\* a second constraint removes a record that the first one alone keeps
C10_Witness ==
    /\ Called /\ subpopulation.returned
    /\ NumSet(query) >= 2
    /\ \E q1 \in Weakenings(query) :
          /\ NumSet(q1) >= 1
          /\ SubpopIds # _get_subpopulation(q1).index
          /\ _get_subpopulation(q1).index # DOMAIN records_by_id

\* C11: for the Query with all 8 fields None, _get_subpopulation returns every
\* record given to the Dataset constructor exactly once: as many records as
\* input records, none repeated, none dropped.
C11_AllNoneReturnsEveryRecord ==
    (Called /\ query = NewQuery) =>
        /\ subpopulation.returned
        /\ Len(subpopulation.ids) = Len(input_records)
        /\ SameBag(Subpop, input_records)

\* C13: for each dimension d and value v, the index entry of v is the set of
\* the ids of the records whose d-value is v: the entries of a dimension are
\* non-empty, pairwise disjoint, their union is the id set, and the record
\* stored under an id of index[d][v] has d-value v.
C13_IndexPartitionsIds ==
    \A d \in DimSet :
        LET index == id_by[d]
        IN /\ \A v \in DOMAIN index :
                 /\ index[v] # {}
                 /\ index[v] = {r.index : r \in {x \in Range(input_records) : x[d] = v}}
                 /\ \A i \in index[v] : records_by_id[i][d] = v
           /\ \A v, w \in DOMAIN index : v # w => index[v] \cap index[w] = {}
           /\ UNION {index[v] : v \in DOMAIN index} = DOMAIN records_by_id

\* C14: for every Dataset and every dimension d, get_<d>_vals returns a list
\* that is strictly ascending (strings by code point, False before True), so
\* without duplicates, and whose elements are exactly the values of d observed
\* among the records the Dataset was built from.
C14_ValsSortedDistinct ==
    \A d \in DimSet :
        result.op = ValsOp(d) =>
            /\ result.kind = "list"
            /\ \A i, j \in DOMAIN result.vals :
                  i < j => Less(d, result.vals[i], result.vals[j])
            /\ Range(result.vals) = {r[d] : r \in Range(input_records)}

\* two education levels that the index met in descending order
C14_Witness ==
    /\ result.op = "get_educ_vals"
    /\ Len(input_records) = 2
    /\ input_records[1].educ = "high school"
    /\ input_records[2].educ = "college"
    /\ result.vals = <<"college", "high school">>

\* the wage observations and the unemployment rates of the records the Dataset holds
StoredWages ==
    UNION {{w.wage : w \in Range(records_by_id[i].wageotc)} : i \in DOMAIN records_by_id}

StoredUnemps == {records_by_id[i].unemp : i \in DOMAIN records_by_id}

\* the result is the greatest element of S, or a ValueError when S is empty
IsMaxOf(S) ==
    IF S = {} THEN result.kind = "error" /\ result.err = "ValueError"
    ELSE /\ result.kind = "value"
         /\ result.den = 1
         /\ result.num \in S
         /\ \A x \in S : x <= result.num

\* C17 as stated: get_max_wage and get_max_unemployment return a value for
\* every dataset with at least one record.
C17_FailOnlyWithoutRecords ==
    (result.op \in {"get_max_wage", "get_max_unemployment"} /\ input_records # <<>>) =>
        result.kind = "value"

\* C17: get_max_wage returns the greatest wage among the wage observations of
\* the records the Dataset holds and raises ValueError exactly when they have
\* none (no record, or only records with an empty wage list);
\* get_max_unemployment returns the greatest unemployment rate of the records
\* the Dataset holds and raises ValueError exactly when it holds no record.
C17_MaxOverStoredObservations ==
    /\ result.op = "get_max_wage" => IsMaxOf(StoredWages)
    /\ result.op = "get_max_unemployment" => IsMaxOf(StoredUnemps)

\* get_max_wage raises on a dataset of one record whose wage list is empty
C17_Witness ==
    /\ result.op = "get_max_wage"
    /\ Len(input_records) = 1
    /\ input_records[1].wageotc = <<>>
    /\ result.kind = "error"

\* C12: in every Dataset the loader produces record ids are unique, and the
\* Dataset holds one record per row of the file.
C12_LoadedIdsUnique ==
    result.kind = "dataset" =>
        /\ UniqueIds(input_records)
        /\ Cardinality(DOMAIN records_by_id) = Len(csv_records)

\* a step of a method of Dataset: the set_* and clear_* of Query leave no result
DatasetStep == result' # NoResult

\* C15: no call of get_wageotc, get_unemp, get_size, get_max_wage,
\* get_max_unemployment or get_<d>_vals, returning or raising, changes the list
\* the Dataset was built from, the record map, a field of a record, the order
\* of a record's wage list or one of the 8 indexes, nor the Query it is given;
\* set_* and clear_* of Query change no part of the Dataset either.
C15_QueriesChangeNothing ==
    [][/\ input_records' = input_records
       /\ records_by_id' = records_by_id
       /\ id_by' = id_by
       /\ DatasetStep => query' = query]_vars

\* get_wageotc has returned a median over a record whose own wage list is not
\* in ascending order, and the Dataset is as its constructor built it
C15_Witness ==
    /\ result.op = "get_wageotc"
    /\ result.kind = "value"
    /\ \E i \in DOMAIN subpopulation.ids :
          records_by_id[subpopulation.ids[i]].wageotc # sort(records_by_id[subpopulation.ids[i]].wageotc)
    /\ NumSet(query) > 0
    /\ records_by_id = MakeRecordsById(input_records)
    /\ id_by = [d \in DimSet |-> _make_index(d, input_records)]

\* the query of the worked example: educ = "college", every other field None
CollegeQuery == [NewQuery EXCEPT !.educ = Some("college")]

\* C18: on the three records of the worked example the query with only
\* educ = "college" gives get_size = 20, get_wageotc = 12 and get_unemp = 6.5
\* (= 130 / 20).
C18_ScenarioCollege ==
    (input_records = ScenarioRecords /\ query = CollegeQuery /\ Called) =>
        /\ result.kind = "value"
        /\ result.op = "get_size" => result.num = 20 /\ result.den = 1
        /\ result.op = "get_wageotc" => result.num = 12 /\ result.den = 1
        /\ result.op = "get_unemp" => 2 * result.num = 13 * result.den /\ result.den # 0

\* the median of the worked example has been computed
C18_Witness ==
    /\ input_records = ScenarioRecords
    /\ query = CollegeQuery
    /\ result.op = "get_wageotc"
    /\ Len(wages) = 4

\* every conversion parse_record makes of the row succeeds
Converts(record_raw) ==
    /\ "index" \in DOMAIN record_raw
    /\ int(record_raw.index) # None
    /\ float(record_raw.unemp) # None
    /\ float(record_raw.wageCount) # None
    /\ float(record_raw.unempCount) # None
    /\ parse_wage_otc(record_raw.wageotc).err = ""

\* C19: when some row has a cell that does not convert, load_from_file raises
\* and there is no Dataset; otherwise it returns a Dataset built from the
\* records of all rows, in the order of the file. (Whether the Dataset then
\* holds them as distinct records is the matter of C12.)
C19_LoadAllOrNothing ==
    result.op = "load_from_file" =>
        IF \A i \in DOMAIN csv_records : Converts(csv_records[i])
        THEN /\ result.kind = "dataset"
             /\ Len(input_records) = Len(csv_records)
             /\ \A i \in DOMAIN csv_records :
                   input_records[i] = parse_record(csv_records[i]).value
        ELSE /\ result.kind = "error"
             /\ input_records = <<>>
             /\ DOMAIN records_by_id = {}
             /\ \A d \in DimSet : DOMAIN id_by[d] = {}

\* a file whose first row parses and whose second row does not
C19_Witness ==
    /\ result.op = "load_from_file"
    /\ Len(csv_records) = 2
    /\ Converts(csv_records[1])
    /\ ~Converts(csv_records[2])
    /\ result.kind = "error"

IsNumber(t) == t # <<>> /\ \A i \in DOMAIN t : IsDigit(t[i])

\* "<wage> <weight>": two numbers with one blank between them
WellFormedPair(pair) ==
    \E i \in DOMAIN pair :
        /\ pair[i] = " "
        /\ IsNumber(SubSeq(pair, 1, i - 1))
        /\ IsNumber(SubSeq(pair, i + 1, Len(pair)))

\* a ";"-separated list of well-formed pairs
WellFormedCell(cell) ==
    LET pairs == split(cell, ";") IN \A k \in DOMAIN pairs : WellFormedPair(pairs[k])

\* C20: the load of a row fails whenever its wageotc cell is not a
\* ";"-separated list of pairs of exactly two blank-separated numbers.
C20_MalformedCellFails ==
    \A i \in DOMAIN csv_records :
        (result.op = "load_from_file" /\ ~WellFormedCell(csv_records[i].wageotc)) =>
            result.kind = "error"

\* the place of the blank of a well-formed pair
BlankOf(pair) == CHOOSE i \in DOMAIN pair : pair[i] = " "

\* the numbers before and after the blank of a well-formed pair
WageOf(pair) == decimal(SubSeq(pair, 1, BlankOf(pair) - 1))

WeightOf(pair) == decimal(SubSeq(pair, BlankOf(pair) + 1, Len(pair)))

\* the index and the three numeric cells of the row convert
NumbersConvert(record_raw) ==
    /\ "index" \in DOMAIN record_raw
    /\ int(record_raw.index) # None
    /\ float(record_raw.unemp) # None
    /\ float(record_raw.wageCount) # None
    /\ float(record_raw.unempCount) # None

\* every row has a well-formed wageotc cell and numbers in its numeric cells
AllWellFormed ==
    \A i \in DOMAIN csv_records :
        NumbersConvert(csv_records[i]) /\ WellFormedCell(csv_records[i].wageotc)

RestConverts(record_raw) ==
    /\ float(record_raw.unemp) # None
    /\ float(record_raw.wageCount) # None
    /\ float(record_raw.unempCount) # None
    /\ parse_wage_otc(record_raw.wageotc).err = ""

\* C22: a file whose rows have no index cell (and are valid otherwise) is
\* loaded, and the ids of its records increase strictly in row order; in a
\* loaded file whose rows have an index cell each record's id is the number in
\* that cell.
C22_IndexOptional ==
    result.op = "load_from_file" =>
        /\ (\A i \in DOMAIN csv_records :
               "index" \notin DOMAIN csv_records[i] /\ RestConverts(csv_records[i])) =>
              /\ result.kind = "dataset"
              /\ Len(input_records) = Len(csv_records)
              /\ \A i, j \in DOMAIN input_records :
                    i < j => input_records[i].index < input_records[j].index
        /\ (result.kind = "dataset" /\ \A i \in DOMAIN csv_records : "index" \in DOMAIN csv_records[i]) =>
              \A i \in DOMAIN csv_records :
                  input_records[i].index = decimal(strip(csv_records[i].index))

\* the arrangements of the elements of the list s
Arrangements(s) == {[i \in DOMAIN s |-> s[o[i]]] : o \in Orders(DOMAIN s)}

\* C23: the value (or error) get_wageotc has returned is the one it returns
\* for every other arrangement of the observations of the pool, so for every
\* order of the records of the subpopulation: it depends on the multiset of
\* (wage, weight) pairs only.
C23_MedianOfMultiset ==
    (result.op = "get_wageotc" /\ subpopulation.returned) =>
        \A pool \in Arrangements(chain(Subpop)) :
            median_of(sort(pool), total_count_of(pool)) = result

\* C24: a field of the query that holds False or "" is a constraint like any
\* other value, not an unset field: when the value is no key of its index the
\* call raises, and otherwise only ids the index lists under the value are
\* returned, which on a Dataset with unique ids are records with that value.
C24_FalsyValueFilters ==
    Called =>
        \A d \in DimSet :
            Falsy(d, query[d]) =>
                IF ~KnownValues(query)
                THEN result.kind = "error" /\ result.err = "RuntimeError"
                ELSE /\ subpopulation.returned
                     /\ SubpopIds \subseteq id_by[d][query[d][1]]
                     /\ UniqueIds(input_records) =>
                           Range(Subpop) = {r \in Range(input_records) : Matches(r, query)}

\* a query with female = False and nothing else keeps one of two records
C24_Witness ==
    /\ Called
    /\ query = [NewQuery EXCEPT !.female = Some(FALSE)]
    /\ UniqueIds(input_records)
    /\ Len(input_records) = 2
    /\ Len(subpopulation.ids) = 1
    /\ ~Subpop[1].female

\* every queried value is known and no record has them all together
NoRecordMatches ==
    /\ KnownValues(query)
    /\ NumSet(query) > 0
    /\ {r \in Range(input_records) : Matches(r, query)} = {}

\* C25: when every queried value is known and the subpopulation is empty (on
\* a Dataset with unique ids: whenever no record matches all constraints),
\* get_size returns 0 and does not raise, while get_wageotc and get_unemp
\* raise on the same query.
C25_EmptySizeIsZero ==
    /\ (UniqueIds(input_records) /\ NoRecordMatches /\ Called) => EmptySubpopulation
    /\ EmptySubpopulation =>
          /\ result.op = "get_size" =>
                (result.kind = "value" /\ result.num = 0 /\ result.den = 1)
          /\ result.op \in {"get_wageotc", "get_unemp"} => result.kind = "error"

\* get_size has returned 0 for two known values that two records have but no
\* record has together
C25_Witness ==
    /\ result.op = "get_size"
    /\ result.kind = "value"
    /\ result.num = 0
    /\ UniqueIds(input_records)
    /\ Len(input_records) = 2
    /\ NoRecordMatches
    /\ NumSet(query) = 2

-----------------------------------------------------------------------------
(* assign-10.py: AgeScale and AgeDistribution *)

\* longest list of input records the age chart is drawn from
MaxAgeRecords == 3

\* Query() followed by set_age(age) and set_female(female)
AgeQuery(age, female) == [NewQuery EXCEPT !["age"] = Some(age), !["female"] = Some(female)]

\* dataset.get_size(q) as a script calls it: the value returned or the error raised
get_size_of(q) ==
    LET s == _get_subpopulation(q)
    IN IF s.raised THEN CannotFind("get_size", s.arg)
       ELSE size_of(Records(CHOOSE ids \in Orders(s.index) : TRUE))

\* [less_25] + categories[:-1]: the last category moved to the front
rotate(categories) ==
    IF categories = <<>> THEN <<>>
    ELSE <<categories[Len(categories)]>> \o SubSeq(categories, 1, Len(categories) - 1)

\* the list `counts` of AgeScale.__init__ for one gender
counts(categories, gender) == [i \in DOMAIN categories |-> get_size_of(AgeQuery(categories[i], gender))]

\* the first error in a list of get_size outcomes, <<>> when there is none
RECURSIVE first_error(_)
first_error(outcomes) ==
    IF outcomes = <<>> THEN <<>>
    ELSE IF Head(outcomes).kind = "error" THEN <<Head(outcomes)>>
    ELSE first_error(Tail(outcomes))

\* sum(counts)
total(outcomes) == sum([i \in DOMAIN outcomes |-> outcomes[i].num])

\* the script after load_from_file: no scale, no bar
NewAgeDistribution ==
    [phase |-> "loaded", categories |-> <<>>, m_total |-> 0, f_total |-> 0, bars |-> <<>>, err |-> ""]

InitAge ==
    /\ csv_records = <<>>
    /\ input_records \in SeqsUpTo(Rows, MaxAgeRecords)
    /\ records_by_id = MakeRecordsById(input_records)
    /\ id_by = [d \in DimSet |-> _make_index(d, input_records)]
    /\ query = NewQuery
    /\ subpopulation = NoSubpopulation
    /\ wages = <<>>
    /\ result = NoResult
    /\ age_distribution = NewAgeDistribution
    /\ data_model = NotStarted
    /\ commit = NotStarted
    /\ graphic = NotStarted

AgeUnchanged == UNCHANGED <<csv_records, input_records, records_by_id, id_by, query, subpopulation, wages, result, data_model, commit, graphic>>

\* AgeScale.__init__: the categories, then the totals of the two genders
AgeScale ==
    /\ age_distribution.phase = "loaded"
    /\ LET categories == rotate(get_vals("age").vals)
           all_counts == counts(categories, FALSE) \o counts(categories, TRUE)
           failed     == first_error(all_counts)
       IN age_distribution' =
              IF failed # <<>>
              THEN [age_distribution EXCEPT !.phase = "error", !.categories = categories,
                                            !.err = failed[1].err]
              ELSE [age_distribution EXCEPT !.phase = "scaled", !.categories = categories,
                                            !.m_total = total(counts(categories, FALSE)),
                                            !.f_total = total(counts(categories, TRUE))]
    /\ AgeUnchanged

\* draw_age sets female to False before both calls of get_size
female_size(age) == get_size_of(AgeQuery(age, FALSE))

\* AgeDistribution.draw_age(age), for the ages of draw_bars in their order
draw_age ==
    /\ age_distribution.phase = "scaled"
    /\ LET ages    == get_vals("age").vals
           n       == Len(age_distribution.bars) + 1
           age     == ages[n]
           male    == get_size_of(AgeQuery(age, FALSE))
           female  == female_size(age)
       IN /\ n <= Len(ages)
          /\ age_distribution' =
                IF male.kind = "error" \/ female.kind = "error"
                THEN [age_distribution EXCEPT !.phase = "error", !.err = "RuntimeError"]
                ELSE IF age_distribution.m_total = 0 \/ age_distribution.f_total = 0
                THEN [age_distribution EXCEPT !.phase = "error", !.err = "ZeroDivisionError"]
                ELSE [age_distribution EXCEPT !.bars = Append(@,
                          [age |-> age,
                           male_num |-> male.num, male_den |-> age_distribution.m_total,
                           female_num |-> female.num, female_den |-> age_distribution.f_total])]
    /\ AgeUnchanged

\* the sum of the numerators of the drawn bars
RECURSIVE BarSum(_, _)
BarSum(bars, field) == IF bars = <<>> THEN 0 ELSE bars[1][field] + BarSum(Tail(bars), field)

AllBarsDrawn ==
    /\ age_distribution.phase = "scaled"
    /\ Len(age_distribution.bars) = Len(get_vals("age").vals)

\* C26: every bar draw_age drew shows get_size(age, female=False) / m_total for
\* the men and get_size(age, female=True) / f_total for the women, so that once
\* every age band is drawn the female percentages sum to 1 as the male ones do
C26_FemaleBarUsesFemale ==
    /\ \A i \in DOMAIN age_distribution.bars :
          LET bar == age_distribution.bars[i]
          IN /\ bar.male_num = get_size_of(AgeQuery(bar.age, FALSE)).num
             /\ bar.male_den = age_distribution.m_total
             /\ bar.female_num = get_size_of(AgeQuery(bar.age, TRUE)).num
             /\ bar.female_den = age_distribution.f_total
    /\ AllBarsDrawn =>
          /\ BarSum(age_distribution.bars, "male_num") = age_distribution.m_total
          /\ BarSum(age_distribution.bars, "female_num") = age_distribution.f_total

\* the male half alone, which the code does satisfy
MaleBarsAsStated ==
    /\ \A i \in DOMAIN age_distribution.bars :
          LET bar == age_distribution.bars[i]
          IN /\ bar.male_num = get_size_of(AgeQuery(bar.age, FALSE)).num
             /\ bar.male_den = age_distribution.m_total
    /\ AllBarsDrawn => BarSum(age_distribution.bars, "male_num") = age_distribution.m_total

-----------------------------------------------------------------------------
(* final-proj: DataModel (data_processing.py) and Commit (data_visual.py) *)

\* most key presses handled in one run
MaxPresses == 4

\* most redraws whose points are kept in timeline_points
MaxRedraws == 2

\* the days get_word_timeline lists: range(1, 32)
Days == 31

\* MESSAGE_MAX, the least top of the vertical axis
MESSAGE_MAX == 5

\* the job-satisfaction Dataset is no part of the other programs
NoEpiDataset ==
    /\ csv_records = <<>>
    /\ input_records = <<>>
    /\ records_by_id = MakeRecordsById(<<>>)
    /\ id_by = [d \in DimSet |-> _make_index(d, <<>>)]
    /\ query = NewQuery
    /\ subpopulation = NoSubpopulation
    /\ wages = <<>>
    /\ result = NoResult

EpiUnchanged == UNCHANGED <<csv_records, input_records, records_by_id, id_by, query, subpopulation, wages, result>>

\* most rows in the csv files combine_csvs reads
MaxCommits == 3

\* a text is the sequence of its characters
UpperCase == <<"A", "B", "C", "D", "E", "F", "G", "H", "I", "J", "K", "L", "M",
               "N", "O", "P", "Q", "R", "S", "T", "U", "V", "W", "X", "Y", "Z">>
LowerCase == <<"a", "b", "c", "d", "e", "f", "g", "h", "i", "j", "k", "l", "m",
               "n", "o", "p", "q", "r", "s", "t", "u", "v", "w", "x", "y", "z">>

\* str.lower
lower(text) ==
    [i \in DOMAIN text |->
        IF \E k \in DOMAIN UpperCase : UpperCase[k] = text[i]
        THEN LowerCase[CHOOSE k \in DOMAIN UpperCase : UpperCase[k] = text[i]]
        ELSE text[i]]

\* the text without the characters of the set chars: str.replace('[.,?!]', '', regex=True)
RECURSIVE remove(_, _)
remove(text, chars) ==
    IF text = <<>> THEN <<>>
    ELSE IF Head(text) \in chars THEN remove(Tail(text), chars)
    ELSE <<Head(text)>> \o remove(Tail(text), chars)

\* str.split(): the words between runs of blanks; word is the word being read
RECURSIVE split_words(_, _)
split_words(text, word) ==
    IF text = <<>> THEN (IF word = <<>> THEN <<>> ELSE <<word>>)
    ELSE IF Head(text) = " "
    THEN (IF word = <<>> THEN <<>> ELSE <<word>>) \o split_words(Tail(text), <<>>)
    ELSE split_words(Tail(text), Append(word, Head(text)))

\* the regular expression '[bot]' is a character class: one of the characters b, o, t
BotPattern == {"b", "o", "t"}

\* the pattern taken as the literal text [bot]
contains_literal(user) ==
    \E i \in 1..(Len(user) - 4) : SubSeq(lower(user), i, i + 4) = <<"[", "b", "o", "t", "]">>

\* df['user'].str.contains('[bot]', case=False), the pattern being a regular expression
contains(user) == \E i \in DOMAIN user : lower(user)[i] \in BotPattern

\* a row of the list `data`: the columns time, repo, user, comment
DataRow(day, repo, user, comment) == [time |-> [month |-> 1, day |-> day], repo |-> repo, user |-> user, comment |-> comment]

\* the rows of data whose user the filter keeps, with the two added columns
RECURSIVE combined(_)
combined(data) ==
    IF data = <<>> THEN <<>>
    ELSE LET row == Head(data)
         IN IF contains(row.user) THEN combined(Tail(data))
            ELSE << [time |-> row.time, repo |-> row.repo, user |-> row.user,
                     comment |-> remove(row.comment, {"\n"}),
                     comment_tokenized |-> split_words(remove(lower(remove(row.comment, {"\n"})), {".", ",", "?", "!"}), <<>>),
                     day |-> row.time.day] >> \o combined(Tail(data))

ann == <<"a", "n", "n">>
eve == <<"e", "v", "e">>

\* the users of the csv rows: two bots, and four people
Users ==
    { ann, eve, <<"b", "o", "b">>, <<"T", "i", "m">>,
      <<"c", "i", "[", "b", "o", "t", "]">>, <<"x", "[", "B", "O", "T", "]">> }

UserRows == { DataRow(3, "repo1", user, <<"F", "i", "x", " ", "i", "t", "!">>) : user \in Users }

\* the rows the commit widget searches: "a" is used on day 3 by two commits,
\* "ab" by one of them, "b" on day 17
CommitData ==
    << DataRow(3, "repo1", ann, <<"a", " ", "a", "b">>),
       DataRow(3, "repo2", eve, <<"A", "!">>),
       DataRow(17, "repo3", ann, <<"b", ".">>) >>

\* the dataframe of the loaded DataModel
CommitDf == combined(CommitData)

\* DataModel.__init__ up to the list `data` of combine_csvs
InitCombine ==
    /\ NoEpiDataset
    /\ age_distribution = NotStarted
    /\ data_model = [data |-> <<>>, df |-> None]
    /\ commit = NotStarted
    /\ graphic = NotStarted

\* the loop of combine_csvs: data.extend(df_as_lst) for one more csv row
read_csv ==
    /\ data_model.df = None
    /\ Len(data_model.data) < MaxCommits
    /\ \E row \in UserRows : data_model' = [data_model EXCEPT !.data = Append(@, row)]
    /\ EpiUnchanged
    /\ UNCHANGED <<age_distribution, commit, graphic>>

\* DataModel.combine_csvs after the files are read
combine_csvs ==
    /\ data_model.df = None
    /\ data_model' = [data_model EXCEPT !.df = Some(combined(data_model.data))]
    /\ EpiUnchanged
    /\ UNCHANGED <<age_distribution, commit, graphic>>

\* the names key.get_name() gives, each the sequence of its characters
backspace == <<"b", "a", "c", "k", "s", "p", "a", "c", "e">>
return == <<"r", "e", "t", "u", "r", "n">>
Keys == { <<"a">>, <<"b">>, backspace, return, <<"s", "h", "i", "f", "t">> }

\* ''.join(input_text)
RECURSIVE join(_)
join(input_text) == IF input_text = <<>> THEN <<>> ELSE Head(input_text) \o join(Tail(input_text))

\* `word in comment` for a tokenized comment
word_in(word, comment) == \E i \in DOMAIN comment : comment[i] = word

\* self.df[self.df['comment_tokenized'].apply(lambda comment: word in comment)]
RECURSIVE filtered(_, _)
filtered(frame, word) ==
    IF frame = <<>> THEN <<>>
    ELSE IF word_in(word, Head(frame).comment_tokenized)
    THEN <<Head(frame)>> \o filtered(Tail(frame), word)
    ELSE filtered(Tail(frame), word)

no_commit_message_found == "no commit message found"

\* DataModel.get_commit(word): the tuples it can return, one per row that
\* random.randint may pick, or the 2-tuple of a word no commit uses
get_commit(word) ==
    LET rows == filtered(data_model.df, word)
    IN IF Len(rows) > 0
       THEN { <<word, rows[k].repo, rows[k].user, rows[k].comment>> : k \in 1..Len(rows) }
       ELSE { <<word, no_commit_message_found>> }

\* DataModel.get_word_timeline(word): the count of every day 1..31
get_word_timeline(word) ==
    LET rows == filtered(data_model.df, word)
    IN [day \in 1..Days |->
           [day |-> day, count |-> Cardinality({k \in DOMAIN rows : rows[k].day = day})]]

\* Graphic's class attributes, as the Commit instance sees them at first
NewCommit ==
    [input_text |-> <<>>, commit_message |-> None, timeline_points |-> <<>>,
     message_scale |-> MESSAGE_MAX, button |-> <<>>, presses |-> 0, redrawn |-> FALSE]

InitCommit ==
    /\ NoEpiDataset
    /\ age_distribution = NotStarted
    /\ data_model = [data |-> CommitData, df |-> CommitDf]
    /\ commit = NewCommit
    /\ graphic = NotStarted

CommitUnchanged ==
    /\ EpiUnchanged
    /\ UNCHANGED <<age_distribution, data_model, graphic>>

\* the message is kept by a key press
dismiss_not(commit_message) == commit_message

\* `if self.commit_message is not None: self.commit_message = None`
dismiss(commit_message) == IF commit_message # None THEN None ELSE commit_message

\* Commit.on_key_press(key), button = key.get_name()
on_key_press(button) ==
    /\ commit.presses < MaxPresses
    /\ LET pressed == [commit EXCEPT !.commit_message = dismiss(@), !.button = button,
                                     !.presses = @ + 1, !.redrawn = FALSE]
       IN IF button = backspace
          THEN commit' = IF pressed.input_text # <<>>
                         THEN [pressed EXCEPT !.input_text = SubSeq(@, 1, Len(@) - 1)]
                         ELSE pressed
          ELSE IF button = return
          THEN IF pressed.input_text # <<>>
               THEN \E message \in get_commit(join(pressed.input_text)) :
                       commit' = [pressed EXCEPT !.commit_message = Some(message),
                                                 !.input_text = <<>>]
               ELSE commit' = pressed
          ELSE IF Len(button) = 1
          THEN commit' = [pressed EXCEPT !.input_text = Append(@, button)]
          ELSE commit' = pressed
    /\ CommitUnchanged

KeyPress == \E button \in Keys : on_key_press(button)

\* the entries draw_all_points appends: one per row of df; the box x1, y1, x2, y2
\* of an entry is computed from its day, its count and the scales
draw_all_points(frame) == [i \in DOMAIN frame |-> [day |-> frame[i].day, count |-> frame[i].count]]

\* max(df['count'])
RECURSIVE max_count(_)
max_count(frame) ==
    IF Len(frame) = 1 THEN frame[1].count
    ELSE LET rest == max_count(Tail(frame))
         IN IF frame[1].count > rest THEN frame[1].count ELSE rest

\* Commit.draw: draw_typing and interactive_timeline change no attribute;
\* draw_timeline appends the points of a found word and resets them only when
\* there is no message
draw ==
    /\ IF commit.commit_message # None
       THEN LET message == commit.commit_message[1]
                word    == message[1]
            IN IF message[2] # no_commit_message_found
               THEN LET frame == get_word_timeline(word)
                        top   == max_count(frame)
                    IN /\ Len(commit.timeline_points) < MaxRedraws * Days
                       /\ commit' = [commit EXCEPT
                              !.message_scale = IF top > MESSAGE_MAX THEN top ELSE MESSAGE_MAX,
                              !.timeline_points = @ \o draw_all_points(frame),
                              !.redrawn = TRUE]
               ELSE commit' = [commit EXCEPT !.redrawn = TRUE]
       ELSE commit' = [commit EXCEPT !.message_scale = MESSAGE_MAX, !.timeline_points = <<>>,
                                     !.redrawn = TRUE]
    /\ CommitUnchanged

\* a step in which on_key_press handled one key
KeyStep == commit'.presses = commit.presses + 1

\* C27: over any sequence of key presses, commit_message becomes non-None only
\* by a 'return' press on non-empty input_text (it is then a result of get_commit
\* of the joined characters, and input_text becomes empty); a message is None
\* again after the next key press of any kind; 'backspace' removes the last
\* character or does nothing on empty input; 'return' on empty input changes
\* nothing but the dismissal; only keys whose name has length 1 are appended
C27_KeyPresses ==
    [][ /\ ~KeyStep =>
              /\ commit'.commit_message = commit.commit_message
              /\ commit'.input_text = commit.input_text
        /\ KeyStep =>
              LET button == commit'.button
                  typed  == commit.input_text
              IN /\ commit'.commit_message # None <=> (button = return /\ typed # <<>>)
                 /\ commit'.commit_message # None =>
                       /\ commit'.commit_message[1] \in get_commit(join(typed))
                       /\ commit'.input_text = <<>>
                 /\ commit.commit_message # None => commit'.commit_message = None
                 /\ button = backspace =>
                       commit'.input_text =
                           IF typed = <<>> THEN <<>> ELSE SubSeq(typed, 1, Len(typed) - 1)
                 /\ (button = return /\ typed = <<>>) =>
                       /\ commit'.input_text = <<>>
                       /\ commit'.timeline_points = commit.timeline_points
                       /\ commit'.message_scale = commit.message_scale
                 /\ button \notin {backspace, return} =>
                       commit'.input_text =
                           IF Len(button) = 1 THEN Append(typed, button) ELSE typed
      ]_vars

\* 'return' was pressed, as the last of MaxPresses keys, on the typed word "ab",
\* which one commit uses
C27_Witness ==
    /\ commit.button = return
    /\ commit.commit_message # None
    /\ Len(commit.commit_message[1]) = 4
    /\ commit.commit_message[1][1] = <<"a", "b">>
    /\ commit.presses = MaxPresses

\* the last event was a redraw that showed the message of a word some commit uses
FoundDisplayed ==
    /\ commit.redrawn
    /\ commit.commit_message # None
    /\ commit.commit_message[1][2] # no_commit_message_found

\* the entries one redraw records for the displayed word
PointsOfDisplayedWord == Range(draw_all_points(get_word_timeline(commit.commit_message[1][1])))

\* timeline_points is empty after a redraw that displays no message
EmptyWithoutMessage == (commit.redrawn /\ commit.commit_message = None) => commit.timeline_points = <<>>

\* C28: after any interleaving of redraws and key presses timeline_points holds
\* at most one entry per day (at most 31 entries); when a found word's message
\* is displayed every entry belongs to the displayed word; and the list is empty
\* whenever no message is displayed after a redraw
C28_OnePointPerDay ==
    /\ Len(commit.timeline_points) <= Days
    /\ \A i, j \in DOMAIN commit.timeline_points :
          i # j => commit.timeline_points[i].day # commit.timeline_points[j].day
    /\ FoundDisplayed => Range(commit.timeline_points) \subseteq PointsOfDisplayedWord
    /\ EmptyWithoutMessage

-----------------------------------------------------------------------------
(* bart-station/assign-15.py: Graphic, the month buttons *)

\* the names of the months, each the sequence of its characters
NUM_TO_MONTH ==
    << <<"J", "a", "n">>, <<"F", "e", "b">>, <<"M", "a", "r">>, <<"A", "p", "r">>,
       <<"M", "a", "y">>, <<"J", "u", "n", "e">>, <<"J", "u", "l", "y">>, <<"A", "u", "g">>,
       <<"S", "e", "p">>, <<"O", "c", "t">>, <<"N", "o", "v">>, <<"D", "e", "c">> >>

LEGEND_WIDTH == 180
LEGEND_LEFT == 10
BUTTON_X == LEGEND_LEFT * 2 + LEGEND_WIDTH
BUTTON_Y == 915

\* the width of a button per character of its label
CharWidth == 16

\* self.month_buttons[key] = value on a dict kept as the list of its items
dict_set(items, key, value) ==
    IF \E k \in DOMAIN items : items[k].key = key
    THEN [k \in DOMAIN items |-> IF items[k].key = key THEN [key |-> key, value |-> value] ELSE items[k]]
    ELSE Append(items, [key |-> key, value |-> value])

\* the loop of draw_button from month i on, with the buttons recorded so far
RECURSIVE record_buttons(_, _, _)
record_buttons(i, start_x, month_buttons) ==
    IF i > Len(NUM_TO_MONTH) THEN month_buttons
    ELSE LET button_width == Len(NUM_TO_MONTH[i]) * CharWidth
             x_range      == <<start_x, start_x + button_width>>
             y_range      == <<BUTTON_Y, BUTTON_Y + button_width>>
         IN record_buttons(i + 1, start_x + button_width,
                           dict_set(month_buttons, <<x_range, y_range>>, i))

\* the pointer positions tried: on, just inside and just outside the borders
PointerXs ==
    UNION { {items.key[1][1] - 1, items.key[1][1], items.key[1][2], items.key[1][2] + 1} :
            items \in Range(record_buttons(1, BUTTON_X, <<>>)) }

PointerYs ==
    UNION { {items.key[2][1] - 1, items.key[2][1], items.key[2][2], items.key[2][2] + 1} :
            items \in Range(record_buttons(1, BUTTON_X, <<>>)) }

\* Graphic.__init__, and the mouse of the sketch
NewGraphic == [month |-> 1, month_buttons |-> <<>>, buttons |-> FALSE, pointer |-> <<0, 0>>]

InitGraphic ==
    /\ NoEpiDataset
    /\ age_distribution = NotStarted
    /\ data_model = NotStarted
    /\ commit = NotStarted
    /\ graphic = NewGraphic

GraphicUnchanged ==
    /\ EpiUnchanged
    /\ UNCHANGED <<age_distribution, data_model, commit>>

\* draw_allparts: of its calls only draw_button assigns an attribute
draw_allparts ==
    /\ graphic' = [graphic EXCEPT
           !.month_buttons = IF ~graphic.buttons THEN record_buttons(1, BUTTON_X, @) ELSE @,
           !.buttons = TRUE]
    /\ GraphicUnchanged

\* the test of the x range alone
inside_x(coords, x, y) == coords[1][1] <= x /\ x <= coords[1][2]

\* coords[0][0] <= x <= coords[0][1] and coords[1][0] <= y <= coords[1][1]
inside(coords, x, y) ==
    /\ coords[1][1] <= x /\ x <= coords[1][2]
    /\ coords[2][1] <= y /\ y <= coords[2][2]

\* the loop of interactive_month over the items of month_buttons
RECURSIVE month_clicked(_, _, _, _)
month_clicked(items, x, y, month) ==
    IF items = <<>> THEN month
    ELSE month_clicked(Tail(items), x, y,
                       IF inside(Head(items).key, x, y) THEN Head(items).value ELSE month)

\* a press of the mouse button at (x, y); interactive_month is the handler
\* draw_allparts registers
interactive_month(x, y) ==
    /\ graphic' = [graphic EXCEPT
           !.pointer = <<x, y>>,
           !.month = IF graphic.buttons THEN month_clicked(graphic.month_buttons, x, y, @) ELSE @]
    /\ GraphicUnchanged

Click == \E x \in PointerXs, y \in PointerYs : interactive_month(x, y)

\* the pointer lies in a region month_buttons records for month m
InRegionOf(m) ==
    \E k \in DOMAIN graphic.month_buttons :
        LET item == graphic.month_buttons[k]
        IN /\ item.value = m
           /\ item.key[1][1] <= graphic'.pointer[1] /\ graphic'.pointer[1] <= item.key[1][2]
           /\ item.key[2][1] <= graphic'.pointer[2] /\ graphic'.pointer[2] <= item.key[2][2]

\* C29: month is always an integer in 1..12, initially 1; a click changes month
\* only when the pointer lies inside a recorded month-button region (to a month
\* of such a region) and leaves it unchanged otherwise; month_buttons is filled
\* with exactly 12 regions by the first draw_button call and never changes
\* afterwards
C29_MonthAndButtons ==
    /\ graphic.month = 1
    /\ [](/\ graphic.month \in 1..12
          /\ graphic.month_buttons = <<>> <=> ~graphic.buttons
          /\ graphic.buttons =>
                /\ Len(graphic.month_buttons) = 12
                /\ \A j, k \in DOMAIN graphic.month_buttons :
                      j # k => graphic.month_buttons[j].key # graphic.month_buttons[k].key)
    /\ [][ /\ graphic'.month # graphic.month => InRegionOf(graphic'.month)
           /\ (graphic'.pointer # graphic.pointer /\ \E m \in 1..12 : InRegionOf(m)) =>
                 InRegionOf(graphic'.month)
           /\ graphic.buttons => graphic'.month_buttons = graphic.month_buttons
         ]_vars

\* after the first redraw a click inside the region of July has set month to 7
C29_Witness ==
    /\ graphic.buttons
    /\ graphic.month = 7
    /\ \E k \in DOMAIN graphic.month_buttons :
          /\ graphic.month_buttons[k].value = 7
          /\ inside(graphic.month_buttons[k].key, graphic.pointer[1], graphic.pointer[2])

\* the rows of data whose user does not contain the text [bot], in any case of letters
RECURSIVE WithoutBots(_)
WithoutBots(data) ==
    IF data = <<>> THEN <<>>
    ELSE IF contains_literal(Head(data).user) THEN WithoutBots(Tail(data))
    ELSE <<Head(data)>> \o WithoutBots(Tail(data))

\* the columns of a dataframe that the csv files gave
CsvColumns(frame) == [i \in DOMAIN frame |-> [time |-> frame[i].time, repo |-> frame[i].repo, user |-> frame[i].user, comment |-> frame[i].comment]]

\* C30: combine_csvs drops a commit row exactly when its username contains the
\* literal text '[bot]' in any case of letters; the rows of every other user,
\* whatever letters the username contains, are kept in the dataframe
C30_OnlyBotsDropped ==
    data_model.df # None => CsvColumns(data_model.df[1]) = WithoutBots(data_model.data)

\* every row of a user whose name contains '[bot]' is dropped
BotsDropped ==
    data_model.df # None =>
        \A i \in DOMAIN data_model.df[1] : ~contains_literal(data_model.df[1][i].user)

-----------------------------------------------------------------------------
Next ==
    \/ set_educ \/ set_docc03 \/ set_wbhaom \/ set_female
    \/ set_region \/ set_age \/ set_hoursuint \/ set_citistat
    \/ clear_educ \/ clear_docc03 \/ clear_wbhaom \/ clear_female
    \/ clear_region \/ clear_age \/ clear_hoursuint \/ clear_citistat
    \/ get_size \/ get_unemp \/ get_wageotc

Spec == Init /\ [][Next]_vars

\* the methods of Dataset that take no Query
NextAccessors ==
    \/ get_max_wage \/ get_max_unemployment
    \/ get_educ_vals \/ get_docc03_vals \/ get_wbhaom_vals \/ get_female_vals
    \/ get_region_vals \/ get_age_vals \/ get_hoursuint_vals \/ get_citistat_vals

\* every method of Query and of Dataset
NextFrame == Next \/ NextAccessors

\* the rows whose own wage list is not in ascending order, or is empty
FrameRows == {r \in Rows : r.wageotc = <<>> \/ r.wageotc # sort(r.wageotc)}

\* Dataset(records) over these rows, and a new Query
InitFrame ==
    /\ Init
    /\ input_records \in SeqsUpTo(FrameRows, MaxRecords)

SpecFrame == InitFrame /\ [][NextFrame]_vars

\* the Query and Dataset methods on the dataset of the worked example
SpecScenario == InitScenario /\ [][Next]_vars

\* the Query and Dataset methods on a dataset whose weights do not add up exactly
SpecRounding == InitRounding /\ [][Next]_vars

SpecAccessors == Init /\ [][NextAccessors]_vars

\* the load of a file of up to MaxRows rows
NextLoad == load_from_file

SpecLoad == InitLoad /\ [][NextLoad]_vars

\* the load of a one-row file, over the texts of its wageotc cell
SpecParse == InitParse /\ [][NextLoad]_vars

NextAge ==
    \/ AgeScale
    \/ draw_age

\* assign-10.py from `horz3 = AgeScale(dataset, 'age')` to the end of draw_bars
SpecAge == InitAge /\ [][NextAge]_vars

NextCommit ==
    \/ KeyPress
    \/ draw

\* data_visual.py after `graphic.draw()`: the steps of the sketch and the key presses
SpecCommit == InitCommit /\ [][NextCommit]_vars

NextGraphic ==
    \/ draw_allparts
    \/ Click

\* assign-15.py after `Graphic(stations).draw()`: the steps of the sketch and the mouse presses
SpecGraphic == InitGraphic /\ [][NextGraphic]_vars

NextCombine ==
    \/ read_csv
    \/ combine_csvs

\* data_processing.py: DataModel.get_data up to the end of combine_csvs
SpecCombine == InitCombine /\ [][NextCombine]_vars
====
